---- MODULE Spec2Model ----
(***************************************************************************)
(* Model of lithops/standalone/backends/ibm_vpc/ibm_vpc.py                 *)
(* (class IBMVPCInstanceClient): resource naming, the retry wrapper, the   *)
(* create / floating-IP / wait / stop life cycle against a VPC provider.   *)
(*                                                                         *)
(* Python strings that the code takes apart (job_key, call_id, names) are  *)
(* sequences of one-character strings.  Python None is None for the        *)
(* str-valued arguments, NoId for instance ids and NoIp for addresses.     *)
(***************************************************************************)
EXTENDS Integers, Sequences, FiniteSets, TLC

VARIABLES
    gen,               \* calls of _generate_name under observation (SpecName)
    inst,              \* provider: sequence of instances, index = instance id
    fips,              \* provider: sequence of floating IPs, index = floating ip id
    instance_id,       \* self.instance_id, per controller
    ip_address,        \* self.ip_address
    config,            \* self.config (the shared configuration dict)
    public_vsi,        \* self.public_vsi
    ssh_client,        \* self.ssh_client ("unset": the attribute does not exist)
    floating_ip_name,  \* self.floating_ip_name (Unset: the attribute does not exist)
    pc,                \* position of the controller's running operation
    loc,               \* local variables of the running operation
    calls,             \* remote calls issued by the current / last operation
    result             \* outcome of the last finished operation

nvars == <<gen>>
pvars == <<inst, fips>>
svars == <<instance_id, ip_address, config, public_vsi, ssh_client, floating_ip_name>>
cvars == <<pc, loc, calls, result>>
vars == <<gen, inst, fips, instance_id, ip_address, config, public_vsi, ssh_client,
          floating_ip_name, pc, loc, calls, result>>

(***************************************************************************)
(* Bounds.                                                                 *)
(***************************************************************************)
MaxLen == 2        \* longest job_key / call_id explored by SpecName

(***************************************************************************)
(* Python str operations used by _generate_name.                           *)
(***************************************************************************)
None == <<"None">>

Str_lithops == <<"l", "i", "t", "h", "o", "p", "s", "-">>

Str_dash == <<"-">>

Str_instance == <<"i", "n", "s", "t", "a", "n", "c", "e">>

Str_volume == <<"v", "o", "l", "u", "m", "e">>

Str_boot == <<"b", "o", "o", "t">>

\* str.find(ch): 0-based index of the first occurrence, -1 when there is none
find(s, ch) ==
    IF \E i \in 1..Len(s) : s[i] = ch
    THEN (CHOOSE i \in 1..Len(s) : s[i] = ch /\ \A j \in 1..(i - 1) : s[j] # ch) - 1
    ELSE -1

\* s[k:] for a 0-based k
slice_from(s, k) == SubSeq(s, k + 1, Len(s))

\* str.replace(old, new) for a one-character old
RECURSIVE replace(_, _, _)
replace(s, old, new) ==
    IF s = <<>> THEN <<>>
    ELSE (IF Head(s) = old THEN new ELSE <<Head(s)>>) \o replace(Tail(s), old, new)

lower_char(ch) ==
    CASE ch = "A" -> "a"
      [] ch = "B" -> "b"
      [] OTHER -> ch

\* str.lower()
RECURSIVE lower(_)
lower(s) == IF s = <<>> THEN <<>> ELSE <<lower_char(Head(s))>> \o lower(Tail(s))

\* "lithops-{}-{}-{}".format(a, b, c)
format3(a, b, c) == Str_lithops \o a \o Str_dash \o b \o Str_dash \o c

\* "lithops-{}-{}".format(a, b)
format2(a, b) == Str_lithops \o a \o Str_dash \o b

\* faulty variant: the deterministic branch is taken on truthiness, not on "is not None"
_generate_name_truthy(r_type, job_key, call_id, tok) ==
    IF job_key # None /\ call_id # None /\ job_key # <<>> /\ call_id # <<>>
    THEN LET red_call_id == IF find(call_id, "/") > 0
                            THEN slice_from(call_id, find(call_id, "/") + 1)
                            ELSE call_id
         IN  lower(replace(replace(replace(format3(job_key, red_call_id, r_type),
                                           "/", <<"-">>), ":", <<"-">>), ".", <<>>))
    ELSE format2(tok, r_type)

\* faulty variant: the routing segment is cut at find() >= 0
_generate_name_cut0(r_type, job_key, call_id, tok) ==
    IF job_key # None /\ call_id # None
    THEN LET red_call_id == IF find(call_id, "/") >= 0
                            THEN slice_from(call_id, find(call_id, "/") + 1)
                            ELSE call_id
         IN  lower(replace(replace(replace(format3(job_key, red_call_id, r_type),
                                           "/", <<"-">>), ":", <<"-">>), ".", <<>>))
    ELSE format2(tok, r_type)

\* faulty variant: the call id does not enter the name
_generate_name_no_call(r_type, job_key, call_id, tok) ==
    IF job_key # None /\ call_id # None
    THEN lower(replace(replace(replace(format2(job_key, r_type),
                                       "/", <<"-">>), ":", <<"-">>), ".", <<>>))
    ELSE format2(tok, r_type)

\* _generate_name; tok is the value namegenerator.gen() returns when it is called
_generate_name(r_type, job_key, call_id, tok) ==
    IF job_key # None /\ call_id # None
    THEN LET red_call_id == IF find(call_id, "/") > 0
                            THEN slice_from(call_id, find(call_id, "/") + 1)
                            ELSE call_id
         IN  lower(replace(replace(replace(format3(job_key, red_call_id, r_type),
                                           "/", <<"-">>), ":", <<"-">>), ".", <<>>))
    ELSE format2(tok, r_type)

(***************************************************************************)
(* SpecName: _generate_name applied to bounded arguments, twice.           *)
(***************************************************************************)
Alphabet == {"a", "B", "/", ":", "."}

Strings == UNION {[1..n -> Alphabet] : n \in 0..MaxLen}

\* values namegenerator.gen() may return
RandomTokens == {<<"r", "e", "d">>, <<"f", "o", "x">>}

ResourceTypes == {Str_instance, Str_volume, Str_boot}

GenIdle == [phase |-> "off", r_type |-> <<>>, job_key |-> <<>>, call_id |-> <<>>,
            tok |-> <<>>, res |-> <<>>, tok2 |-> <<>>, res2 |-> <<>>]

GenInit ==
    gen \in [phase : {"args"}, r_type : ResourceTypes,
             job_key : Strings \cup {None}, call_id : Strings \cup {None},
             tok : {<<>>}, res : {<<>>}, tok2 : {<<>>}, res2 : {<<>>}]

\* a call self._generate_name(r_type, job_key, call_id)
GenCall ==
    /\ gen.phase = "args"
    /\ \E tok \in RandomTokens :
         gen' = [gen EXCEPT !.phase = "called", !.tok = tok,
                            !.res = _generate_name(gen.r_type, gen.job_key, gen.call_id, tok)]
    /\ UNCHANGED <<pvars, svars, cvars>>

\* the same call repeated (any later time, any controller)
GenAgain ==
    /\ gen.phase = "called"
    /\ \E tok \in RandomTokens :
         gen' = [gen EXCEPT !.phase = "again", !.tok2 = tok,
                            !.res2 = _generate_name(gen.r_type, gen.job_key, gen.call_id, tok)]
    /\ UNCHANGED <<pvars, svars, cvars>>

NoControllers ==
    /\ inst = <<>> /\ fips = <<>>
    /\ instance_id = <<>> /\ ip_address = <<>> /\ config = <<>> /\ public_vsi = <<>>
    /\ ssh_client = <<>> /\ floating_ip_name = <<>>
    /\ pc = <<>> /\ loc = <<>> /\ calls = <<>> /\ result = <<>>

InitName == GenInit /\ NoControllers

NextName == GenCall \/ GenAgain

SpecName == InitName /\ [][NextName]_vars

BothPresent == gen.job_key # None /\ gen.call_id # None

\* the reference of section 4.1: strip the routing segment, compose, map / : . to -
RefStrip(c) ==
    IF \E i \in 1..Len(c) : c[i] = "/"
    THEN SubSeq(c, (CHOOSE i \in 1..Len(c) : c[i] = "/" /\ \A j \in 1..(i - 1) : c[j] # "/") + 1,
                Len(c))
    ELSE c

RefChar(ch) == IF ch \in {"/", ":", "."} THEN "-" ELSE lower_char(ch)

RefName(kind, j, c) ==
    LET raw == Str_lithops \o j \o <<"-">> \o RefStrip(c) \o <<"-">> \o kind
    IN  [i \in 1..Len(raw) |-> RefChar(raw[i])]

\* the format the code produces: the segment is cut only behind a "/" that is not the
\* first character, "." is dropped, "/" and ":" become "-"
CodeStrip(c) ==
    IF \E i \in 2..Len(c) : c[i] = "/" /\ \A j \in 1..(i - 1) : c[j] # "/"
    THEN SubSeq(c, (CHOOSE i \in 2..Len(c) : c[i] = "/" /\ \A j \in 1..(i - 1) : c[j] # "/") + 1,
                Len(c))
    ELSE c

CodeChar(ch) == IF ch \in {"/", ":"} THEN "-" ELSE lower_char(ch)

CodeName(kind, j, c) ==
    LET raw == SelectSeq(Str_lithops \o j \o <<"-">> \o CodeStrip(c) \o <<"-">> \o kind,
                         LAMBDA ch : ch # ".")
    IN  [i \in 1..Len(raw) |-> CodeChar(raw[i])]

\* C9 (as stated): with job_key and call_id present the name is the reference of 4.1:
\* routing segment stripped, "/", ":" and "." each replaced by "-", lower-cased.
C9_NameIsReference ==
    (gen.phase \in {"called", "again"} /\ BothPresent)
        => gen.res = RefName(gen.r_type, gen.job_key, gen.call_id)

\* C9 (amended): with job_key and call_id present the name is
\* "lithops-{job_key}-{call_id}-{r_type}" where call_id loses everything up to its first
\* "/" only if that "/" is not its first character, every "." is removed, "/" and ":"
\* are replaced by "-", and the whole is lower-cased.
C9_NameFormat ==
    (gen.phase \in {"called", "again"} /\ BothPresent)
        => gen.res = CodeName(gen.r_type, gen.job_key, gen.call_id)

C9_Witness ==
    /\ gen.phase = "called" /\ BothPresent
    /\ gen.call_id = <<"/", "B">> /\ gen.job_key = <<"a", ".">>
    /\ gen.res = Str_lithops \o <<"a", "-", "-", "b", "-">> \o gen.r_type

\* C10: with job_key and call_id present, a repeated call of _generate_name with the
\* same three arguments returns the same string, whatever the random generator yields.
C10_NameStable ==
    (gen.phase = "again" /\ BothPresent) => gen.res2 = gen.res

C10_Witness ==
    /\ gen.phase = "again" /\ BothPresent
    /\ gen.tok # gen.tok2 /\ gen.res2 = gen.res
    /\ gen.call_id = <<>>

(***************************************************************************)
(* The provider (self.service) and the controllers.                        *)
(***************************************************************************)
MaxInst == 1           \* provider quota of instances ever created, per controller
MaxFip == 1            \* provider quota of floating IPs ever created
VmCreateTimeout == 1   \* config['vm_create_timeout'], in seconds

NoId == 0              \* instance_id None; also "the local name is unbound"
NoIp == 0              \* ip_address None
ExtIp == 9             \* an address supplied by config['ip_address']
Unset == <<"unset">>   \* an attribute that was never assigned
FipName == <<"f", "i", "p">>
NoNic == <<0, "none">>

Ctrls == {"c1"}

JobKeys == {<<"a">>}

CallIds == {<<"1">>}

\* a network interface is identified by its instance and its name
InstanceQuota == MaxInst * Cardinality(DOMAIN pc)

PrimaryNic(i) == <<i, "eth0">>

\* instance['network_interfaces'][0]['id']
FirstNic(i) == <<i, inst[i].nics[1]>>

\* nic['primary_ipv4_address']
Ipv4(nic) == <<"10.0", nic[1], nic[2]>>

\* floating_ip['address']
FipAddress(f) == f

Alive(i) == i \in 1..Len(inst) /\ inst[i].status # "deleted"

FipAlive(f) == f \in 1..Len(fips) /\ fips[f].alive

\* the ids list_instances() returns, in list order
AllInstances == {i \in 1..Len(inst) : Alive(i)}

SetMax(S) == CHOOSE x \in S : \A y \in S : y <= x

\* floating ips bound to the interfaces of instance i, in the order _delete_instance
\* meets them (line 210-212)
RECURSIVE SetToSeq(_)
SetToSeq(S) == IF S = {} THEN <<>>
               ELSE LET m == CHOOSE x \in S : \A y \in S : x <= y
                    IN  <<m>> \o SetToSeq(S \ {m})

RECURSIVE FipsOfNics(_, _)
FipsOfNics(i, names) ==
    IF names = <<>> THEN <<>>
    ELSE SetToSeq({f \in 1..Len(fips) : fips[f].alive /\ fips[f].target = <<i, Head(names)>>})
         \o FipsOfNics(i, Tail(names))

AttachedFips(i) ==
    IF Alive(i)
    THEN {f \in 1..Len(fips) : fips[f].alive /\ fips[f].target[1] = i}
    ELSE {}

\* one remote call as it appears in the log of an operation
Call(op, id, nic, fip, ok) == [op |-> op, id |-> id, nic |-> nic, fip |-> fip, ok |-> ok]

LocIdle ==
    [op |-> "none", job_key |-> <<>>, call_id |-> <<>>, check |-> FALSE,
     new_name |-> <<>>, vsi_exists |-> FALSE, instance |-> NoId,
     floating_ip |-> [id |-> 0, target |-> NoNic], exc |-> "none", ctx |-> "none",
     retry_attempt |-> 0, wrap |-> "none", response |-> NoId,
     wait_id |-> NoId, elapsed |-> 0, todo |-> <<>>, adopted |-> NoId, listed |-> {},
     named |-> {}]

ResultIdle ==
    [op |-> "none", outcome |-> "none", err |-> "none", ret_id |-> NoId, ret_ip |-> NoIp,
     ret_bool |-> FALSE, pre_id |-> NoId, pre_ip |-> NoIp, pre_match |-> {},
     pre_fips |-> {}, pre_cfg |-> NoId]

\* an instance some other user of the account created before the controller was built
ForeignInstances ==
    [name : {_generate_name(Str_instance, j, c, <<>>) : j \in JobKeys, c \in CallIds},
     status : {"running"}, nics : {<<"eth0">>, <<"eth1", "eth0">>}, req : {<<>>}]

\* __init__ (line 17-52) for every controller of C
InitControllers(C) ==
    /\ public_vsi \in [C -> BOOLEAN]
    /\ config \in [C -> [instance_id : {NoId}, ip_address : {NoIp, ExtIp},
                         delete_on_dismantle : BOOLEAN, complete : {TRUE}]]
    /\ instance_id = [c \in C |-> config[c].instance_id]
    /\ ip_address = [c \in C |-> config[c].ip_address]
    /\ ssh_client = [c \in C |-> IF public_vsi[c] /\ ip_address[c] # NoIp
                                 THEN "set" ELSE "unset"]
    /\ floating_ip_name \in [C -> {Unset, FipName}]
    /\ pc = [c \in C |-> "idle"]
    /\ loc = [c \in C |-> LocIdle]
    /\ calls = [c \in C |-> <<>>]
    /\ result = [c \in C |-> ResultIdle]

Init ==
    /\ gen = GenIdle
    /\ inst \in {<<>>} \cup {<<x>> : x \in ForeignInstances}
    /\ fips = <<>>
    /\ InitControllers(Ctrls)

(***************************************************************************)
(* Helpers of the steps.                                                   *)
(***************************************************************************)
Log(c, call) == calls' = [calls EXCEPT ![c] = Append(@, call)]

\* an operation starts: its locals, an empty call log, the state it found
Begin(c, l, label) ==
    /\ pc[c] = "idle"
    /\ pc' = [pc EXCEPT ![c] = label]
    /\ loc' = [loc EXCEPT ![c] = l]
    /\ calls' = [calls EXCEPT ![c] = <<>>]
    /\ result' = [result EXCEPT ![c] =
         [ResultIdle EXCEPT !.op = l.op, !.pre_id = instance_id[c], !.pre_ip = ip_address[c],
                            !.pre_fips = AttachedFips(instance_id[c]),
                            !.pre_cfg = config[c].instance_id,
                            !.pre_match =
                               IF l.op = "create"
                               THEN {i \in AllInstances :
                                       inst[i].name = _generate_name(Str_instance, l.job_key,
                                                                     l.call_id, <<>>)}
                               ELSE {}]]

\* the operation reaches its return or raise
Finish(c, l, outcome, err, rid, rip, rbool) ==
    /\ pc' = [pc EXCEPT ![c] = "done"]
    /\ loc' = [loc EXCEPT ![c] = l]
    /\ result' = [result EXCEPT ![c] = [@ EXCEPT !.outcome = outcome, !.err = err,
                                                 !.ret_id = rid, !.ret_ip = rip,
                                                 !.ret_bool = rbool]]

Goto(c, l, label) ==
    /\ pc' = [pc EXCEPT ![c] = label]
    /\ loc' = [loc EXCEPT ![c] = l]
    /\ UNCHANGED result

(***************************************************************************)
(* execution_wrapper (line 83-96): one turn of its while loop.  ok says    *)
(* whether func() returned; the result tells what the wrapper does next.   *)
(***************************************************************************)
RetryLoopBound == 15   \* while (int(retry_attempt) < 15)
RetryRaiseAt == 15     \* if int(retry_attempt) == 15: raise e

\* faulty variant: the wrapper gives up one attempt early
execution_wrapper_early(retry_attempt, ok) ==
    IF ~(retry_attempt < RetryLoopBound) THEN [k |-> "falloff", retry_attempt |-> retry_attempt]
    ELSE IF ok THEN [k |-> "return", retry_attempt |-> retry_attempt]
    ELSE IF retry_attempt + 1 = RetryRaiseAt - 1
         THEN [k |-> "raise", retry_attempt |-> retry_attempt + 1]
         ELSE [k |-> "retry", retry_attempt |-> retry_attempt + 1]

execution_wrapper(retry_attempt, ok) ==
    IF ~(retry_attempt < RetryLoopBound) THEN [k |-> "falloff", retry_attempt |-> retry_attempt]
    ELSE IF ok THEN [k |-> "return", retry_attempt |-> retry_attempt]
    ELSE IF retry_attempt + 1 = RetryRaiseAt
         THEN [k |-> "raise", retry_attempt |-> retry_attempt + 1]
         ELSE [k |-> "retry", retry_attempt |-> retry_attempt + 1]

\* the locals after a turn w of the wrapper around a call whose response is resp
Wrapped(l, w, resp) ==
    [l EXCEPT !.retry_attempt = w.retry_attempt,
              !.wrap = IF w.k = "retry" THEN "none" ELSE w.k,
              !.response = IF w.k = "return" THEN resp ELSE NoId]

(***************************************************************************)
(* create (line 232-281).                                                  *)
(***************************************************************************)
\* line 234-240, and the names _create_instance derives (line 111-123)
Create(c, job_key, call_id, check) ==
    \E tok \in RandomTokens :
      LET l == [LocIdle EXCEPT !.op = "create", !.job_key = job_key, !.call_id = call_id,
                               !.check = check,
                               !.new_name = _generate_name(Str_instance, job_key, call_id, tok),
                               !.vsi_exists = (instance_id[c] # NoId)]
      IN  /\ Begin(c, l, IF check THEN "c_list"
                         ELSE IF l.vsi_exists THEN "c_pub" ELSE "c_inst")
          /\ UNCHANGED <<nvars, pvars, svars>>

\* faulty variant: the comparison of line 251 never finds the name
MatchSets_never(job_key, call_id) == {{}}

\* the instances the loop of line 250-254 matches: a drawn name matches or not
MatchSets(job_key, call_id) ==
    LET cand == {i \in AllInstances :
                   \E tok \in RandomTokens :
                      inst[i].name = _generate_name(Str_instance, job_key, call_id, tok)}
    IN  IF job_key # None /\ call_id # None THEN {cand} ELSE SUBSET cand

\* line 242-254: list_instances and the loop over its result; the loop variable
\* "instance" stays bound to the last listed instance
CreateList(c) ==
    /\ pc[c] = "c_list"
    /\ \E ok \in BOOLEAN :
         /\ Log(c, Call("list_instances", NoId, NoNic, 0, ok))
         /\ IF ~ok
            THEN /\ Finish(c, loc[c], "raise", "ApiException", NoId, NoIp, FALSE)
                 /\ UNCHANGED instance_id
            ELSE \E M \in MatchSets(loc[c].job_key, loc[c].call_id) :
                   LET l == [loc[c] EXCEPT
                               !.vsi_exists = @ \/ M # {},
                               !.adopted = IF M # {} THEN SetMax(M) ELSE NoId,
                               !.listed = AllInstances,
                               !.instance = IF AllInstances = {} THEN NoId
                                            ELSE SetMax(AllInstances)]
                   IN  /\ instance_id' = [instance_id EXCEPT ![c] =
                                            IF M # {} THEN SetMax(M) ELSE @]
                       /\ Goto(c, l, IF l.vsi_exists THEN "c_pub" ELSE "c_inst")
    /\ UNCHANGED <<nvars, pvars, ip_address, config, public_vsi, ssh_client, floating_ip_name>>

\* faulty variant: the id is written before create_instance is known to have succeeded
written_instance_id_early(old, w, new) == IF w.k \in {"return", "raise"} THEN new ELSE old

\* line 258-260: the id the handle and the config carry after a turn w of the wrapper
\* around create_instance; it is assigned from the response only
written_instance_id(old, w, new) == IF w.k = "return" THEN new ELSE old

\* line 256-264 with _create_instance (line 98-137): one attempt of create_instance
CreateInstance(c) ==
    /\ pc[c] = "c_inst"
    /\ IF ~config[c].complete
       THEN \* line 101-130: self.config[...] of a missing identifier raises KeyError
            /\ Finish(c, loc[c], "raise", "KeyError", NoId, NoIp, FALSE)
            /\ UNCHANGED <<calls, inst, instance_id, config>>
       ELSE \E ok \in BOOLEAN :
              LET done == ok /\ Len(inst) < InstanceQuota
                  new == Len(inst) + 1
                  w == execution_wrapper(loc[c].retry_attempt, done)
                  l == Wrapped(loc[c], w, new)
              IN  /\ IF w.k = "falloff" THEN UNCHANGED calls
                     ELSE Log(c, Call("create_instance", IF done THEN new ELSE NoId, NoNic, 0, done))
                  /\ inst' = IF w.k = "return"
                             THEN Append(inst, [name |-> loc[c].new_name, status |-> "pending",
                                                nics |-> <<"eth0">>,
                                                req |-> <<loc[c].job_key, loc[c].call_id>>])
                             ELSE inst
                  /\ instance_id' = [instance_id EXCEPT ![c] = written_instance_id(@, w, new)]
                  /\ config' = [config EXCEPT ![c].instance_id = written_instance_id(@, w, new)]
                  /\ CASE w.k = "return" -> Goto(c, [l EXCEPT !.instance = new], "c_pub")
                       [] w.k = "retry" -> Goto(c, l, "c_inst")
                       [] w.k = "raise" ->
                            Finish(c, l, "raise", "ApiException", NoId, NoIp, FALSE)
                       [] OTHER ->  \* the wrapper returned None: response.result fails
                            Finish(c, l, "raise", "AttributeError", NoId, NoIp, FALSE)
    /\ UNCHANGED <<nvars, fips, ip_address, public_vsi, ssh_client, floating_ip_name>>

\* the except clause of line 276-279 is entered with exception exc
Cleanup(c, l, exc) == Goto(c, [l EXCEPT !.exc = exc, !.ctx = "create"], "d_list")

\* faulty variant: the reconciler is entered whether or not an address is known
CreatePublic_no_ip_test(c) ==
    /\ pc[c] = "c_pub"
    /\ IF ~public_vsi[c]
       THEN Finish(c, loc[c], "return", "none", instance_id[c], ip_address[c], FALSE)
       ELSE IF loc[c].instance = NoId
            THEN Cleanup(c, loc[c], "UnboundLocalError")
            ELSE Goto(c, loc[c], "f_list")
    /\ UNCHANGED <<nvars, pvars, svars, calls>>

\* line 266-275 up to the call of _create_and_attach_floating_ip
CreatePublic(c) ==
    /\ pc[c] = "c_pub"
    /\ IF ~public_vsi[c]
       THEN Finish(c, loc[c], "return", "none", instance_id[c], ip_address[c], FALSE)
       ELSE IF ip_address[c] = NoIp
            THEN IF loc[c].instance = NoId
                 THEN Cleanup(c, loc[c], "UnboundLocalError")
                 ELSE Goto(c, loc[c], "f_list")
            ELSE IF ssh_client[c] = "unset"
                 THEN Cleanup(c, loc[c], "AttributeError")
                 ELSE Finish(c, loc[c], "return", "none", instance_id[c], ip_address[c], FALSE)
    /\ UNCHANGED <<nvars, pvars, svars, calls>>

(***************************************************************************)
(* _create_and_attach_floating_ip (line 139-181) and its return into       *)
(* create (line 270-275, 281).                                             *)
(***************************************************************************)
\* line 270-275 and 281: the address is recorded, then self.ssh_client is read
AfterFloatingIp(c, l, addr) ==
    /\ config' = [config EXCEPT ![c].ip_address = addr]
    /\ ip_address' = [ip_address EXCEPT ![c] = addr]
    /\ IF ssh_client[c] = "unset"
       THEN Cleanup(c, l, "AttributeError")
       ELSE Finish(c, l, "return", "none", instance_id[c], addr, FALSE)

\* line 166-168: is the floating ip already bound to the primary interface
already_attached(floating_ip, i) ==
    /\ floating_ip.target # NoNic
    /\ Ipv4(floating_ip.target) = Ipv4(PrimaryNic(i))
    /\ floating_ip.target = PrimaryNic(i)

\* faulty variant: a floating ip of the expected name is reused only if it is unbound
needs_new_floating_ip_unbound(named) == {f \in named : fips[f].target = NoNic} = {}

\* line 153: "if floating_ip is None", named being the listed floating ips of the
\* expected name
needs_new_floating_ip(named) == named = {}

\* line 141-171: list_floating_ips, the search by name, the comparison of the target
FipList(c) ==
    /\ pc[c] = "f_list"
    /\ \E ok \in BOOLEAN :
         LET alive == {f \in 1..Len(fips) : fips[f].alive}
             named == {f \in alive : fips[f].name = floating_ip_name[c]}
             found == SetMax(named)
             l == [loc[c] EXCEPT !.floating_ip = [id |-> found, target |-> fips[found].target],
                                 !.named = named]
         IN  /\ Log(c, Call("list_floating_ips", NoId, NoNic, 0, ok))
             /\ IF ~ok
                THEN Cleanup(c, loc[c], "ApiException") /\ UNCHANGED <<config, ip_address>>
                ELSE IF floating_ip_name[c] = Unset
                THEN Cleanup(c, loc[c], "AttributeError") /\ UNCHANGED <<config, ip_address>>
                ELSE IF needs_new_floating_ip(named)
                THEN /\ Goto(c, [loc[c] EXCEPT !.named = named], "f_create")
                     /\ UNCHANGED <<config, ip_address>>
                ELSE IF already_attached(l.floating_ip, l.instance)
                THEN AfterFloatingIp(c, l, FipAddress(found))
                ELSE Goto(c, l, "f_attach") /\ UNCHANGED <<config, ip_address>>
    /\ UNCHANGED <<nvars, pvars, instance_id, public_vsi, ssh_client, floating_ip_name>>

\* line 152-163: create_floating_ip; the new floating ip has no target
FipCreate(c) ==
    /\ pc[c] = "f_create"
    /\ IF ~config[c].complete
       THEN \* line 157-158: self.config[...] of a missing identifier raises KeyError
            /\ Cleanup(c, loc[c], "KeyError")
            /\ UNCHANGED <<calls, fips>>
       ELSE \E ok \in BOOLEAN :
              LET done == ok /\ Len(fips) < MaxFip
                  new == Len(fips) + 1
              IN  /\ Log(c, Call("create_floating_ip", NoId, NoNic, IF done THEN new ELSE 0, done))
                  /\ IF done
                     THEN /\ fips' = Append(fips, [name |-> floating_ip_name[c], target |-> NoNic,
                                                   alive |-> TRUE, bound |-> {}, again |-> FALSE])
                          /\ Goto(c, [loc[c] EXCEPT !.floating_ip = [id |-> new, target |-> NoNic]],
                                  "f_attach")
                     ELSE /\ Cleanup(c, loc[c], "ApiException")
                          /\ UNCHANGED fips
    /\ UNCHANGED <<nvars, inst, svars>>

\* the interface line 175-176 binds the floating ip to
attach_target(i) == FirstNic(i)

\* line 173-181: add_instance_network_interface_floating_ip; the handler of line 178
\* formats two fields from one argument, so a failure leaves as an IndexError
FipAttach(c) ==
    /\ pc[c] = "f_attach"
    /\ \E ok \in BOOLEAN :
         LET i == loc[c].instance
             f == loc[c].floating_ip.id
             nic == IF i \in 1..Len(inst) THEN attach_target(i) ELSE NoNic
             done == ok /\ Alive(i) /\ FipAlive(f)
         IN  /\ Log(c, Call("add_floating_ip", i, nic, f, done))
             /\ IF done
                THEN /\ fips' = [fips EXCEPT ![f] =
                                   [@ EXCEPT !.target = nic, !.bound = @ \cup {nic},
                                             !.again = @ \/ nic \in fips[f].bound]]
                     /\ AfterFloatingIp(c, loc[c], FipAddress(f))
                ELSE /\ Cleanup(c, loc[c], "IndexError")
                     /\ UNCHANGED <<fips, config, ip_address>>
    /\ UNCHANGED <<nvars, inst, instance_id, public_vsi, ssh_client, floating_ip_name>>

(***************************************************************************)
(* _delete_instance (line 207-218), called by create's except clause and   *)
(* by stop.                                                                *)
(***************************************************************************)
\* stop has finished its work (line 290 or 296); _wait_instance_running goes on to 197
StopDone(c, l) ==
    IF l.op = "wait"
    THEN Finish(c, l, "raise", "VMCreateFailed", NoId, NoIp, FALSE)
    ELSE Finish(c, l, "return", "none", NoId, NoIp, FALSE)

\* a call of _delete_instance raised: create lets it pass, stop logs it (line 289-290)
DeleteRaised(c, l) ==
    IF l.ctx = "create"
    THEN Finish(c, l, "raise", "ApiException", NoId, NoIp, FALSE)
    ELSE StopDone(c, l)

\* _delete_instance returned: create re-raises (line 279), stop goes on (line 288)
DeleteReturned(c, l) ==
    IF l.ctx = "create"
    THEN Finish(c, l, "raise", l.exc, NoId, NoIp, FALSE)
    ELSE StopDone(c, l)

\* line 209-212: list_instance_network_interfaces and the floating ips it shows
DeleteList(c) ==
    /\ pc[c] = "d_list"
    /\ \E ok \in BOOLEAN :
         LET i == instance_id[c]
             done == ok /\ Alive(i)
             l == [loc[c] EXCEPT !.todo = IF done THEN FipsOfNics(i, inst[i].nics) ELSE <<>>]
         IN  /\ Log(c, Call("list_instance_network_interfaces", i, NoNic, 0, done))
             /\ IF ~done THEN DeleteRaised(c, l)
                ELSE Goto(c, l, IF l.todo = <<>> THEN "d_inst" ELSE "d_fip")
    /\ UNCHANGED <<nvars, pvars, svars>>

\* line 213: delete_floating_ip
DeleteFip(c) ==
    /\ pc[c] = "d_fip"
    /\ \E ok \in BOOLEAN :
         LET f == Head(loc[c].todo)
             done == ok /\ FipAlive(f)
             l == [loc[c] EXCEPT !.todo = Tail(@)]
         IN  /\ Log(c, Call("delete_floating_ip", NoId, NoNic, f, done))
             /\ fips' = IF done THEN [fips EXCEPT ![f].alive = FALSE, ![f].target = NoNic]
                        ELSE fips
             /\ IF ~done THEN DeleteRaised(c, loc[c])
                ELSE Goto(c, l, IF l.todo = <<>> THEN "d_inst" ELSE "d_fip")
    /\ UNCHANGED <<nvars, inst, svars>>

\* line 217: delete_instance; the provider unbinds what was bound to the instance
DeleteInst(c) ==
    /\ pc[c] = "d_inst"
    /\ \E ok \in BOOLEAN :
         LET i == instance_id[c]
             done == ok /\ Alive(i)
         IN  /\ Log(c, Call("delete_instance", i, NoNic, 0, done))
             /\ inst' = IF done THEN [inst EXCEPT ![i].status = "deleted"] ELSE inst
             /\ fips' = IF done
                        THEN [f \in 1..Len(fips) |->
                                IF fips[f].target[1] = i
                                THEN [fips[f] EXCEPT !.target = NoNic] ELSE fips[f]]
                        ELSE fips
             /\ IF ~done THEN DeleteRaised(c, loc[c]) ELSE DeleteReturned(c, loc[c])
    /\ UNCHANGED <<nvars, svars>>

(***************************************************************************)
(* stop, start, is_ready, _wait_instance_running and the setters.          *)
(***************************************************************************)
\* where stop (line 283-296) goes first
stop_entry(c) == IF config[c].delete_on_dismantle THEN "d_list" ELSE "s_stop"

\* faulty variant: a stop that deletes forgets the id of the instance
Stop_drop_id(c) ==
    /\ Begin(c, [LocIdle EXCEPT !.op = "stop", !.ctx = "stop"], stop_entry(c))
    /\ instance_id' = [instance_id EXCEPT ![c] = IF config[c].delete_on_dismantle
                                                  THEN NoId ELSE @]
    /\ config' = [config EXCEPT ![c].instance_id = IF config[c].delete_on_dismantle
                                                    THEN NoId ELSE @]
    /\ UNCHANGED <<nvars, pvars, ip_address, public_vsi, ssh_client, floating_ip_name>>

\* faulty variant: stop drops the address of the instance it stops
Stop_forget(c) ==
    /\ Begin(c, [LocIdle EXCEPT !.op = "stop", !.ctx = "stop"], stop_entry(c))
    /\ ip_address' = [ip_address EXCEPT ![c] = NoIp]
    /\ UNCHANGED <<nvars, pvars, instance_id, config, public_vsi, ssh_client, floating_ip_name>>

Stop(c) ==
    /\ Begin(c, [LocIdle EXCEPT !.op = "stop", !.ctx = "stop"], stop_entry(c))
    /\ UNCHANGED <<nvars, pvars, svars>>

\* create_instance_action(instance_id, action) at the provider
AfterAction(i, action) ==
    [inst EXCEPT ![i].status = IF action = "stop" THEN "stopped"
                               ELSE IF @ = "stopped" THEN "pending" ELSE @]

\* line 293: one attempt of the 'stop' action under the wrapper
StopAction(c) ==
    /\ pc[c] = "s_stop"
    /\ \E ok \in BOOLEAN :
         LET i == instance_id[c]
             done == ok /\ Alive(i)
             w == execution_wrapper(loc[c].retry_attempt, done)
             l == Wrapped(loc[c], w, i)
         IN  /\ IF w.k = "falloff" THEN UNCHANGED calls
                ELSE Log(c, Call("action_stop", i, NoNic, 0, done))
             /\ inst' = IF w.k = "return" THEN AfterAction(i, "stop") ELSE inst
             /\ CASE w.k = "retry" -> Goto(c, l, "s_stop")
                  [] w.k = "raise" -> Finish(c, l, "raise", "ApiException", NoId, NoIp, FALSE)
                  [] OTHER -> StopDone(c, l)
    /\ UNCHANGED <<nvars, fips, svars>>

Start(c) ==
    /\ Begin(c, [LocIdle EXCEPT !.op = "start"], "s_start")
    /\ UNCHANGED <<nvars, pvars, svars>>

\* line 222: one attempt of the 'start' action under the wrapper
StartAction(c) ==
    /\ pc[c] = "s_start"
    /\ \E ok \in BOOLEAN :
         LET i == instance_id[c]
             done == ok /\ Alive(i)
             w == execution_wrapper(loc[c].retry_attempt, done)
             l == Wrapped(loc[c], w, i)
         IN  /\ IF w.k = "falloff" THEN UNCHANGED calls
                ELSE Log(c, Call("action_start", i, NoNic, 0, done))
             /\ inst' = IF w.k = "return" THEN AfterAction(i, "start") ELSE inst
             /\ CASE w.k = "retry" -> Goto(c, l, "s_start")
                  [] w.k = "raise" -> Finish(c, l, "raise", "ApiException", NoId, NoIp, FALSE)
                  [] OTHER -> Finish(c, l, "return", "none", NoId, NoIp, FALSE)
    /\ UNCHANGED <<nvars, fips, svars>>

IsReady(c) ==
    /\ Begin(c, [LocIdle EXCEPT !.op = "is_ready"], "r_get")
    /\ UNCHANGED <<nvars, pvars, svars>>

\* faulty variant: an instance still starting counts as ready
is_running_or_pending(resp) == resp.status \in {"running", "pending"}

\* line 228: if resp['status'] == 'running'
is_running(resp) == resp.status = "running"

\* line 227-230
IsReadyGet(c) ==
    /\ pc[c] = "r_get"
    /\ \E ok \in BOOLEAN :
         LET i == instance_id[c]
             done == ok /\ Alive(i)
         IN  /\ Log(c, Call("get_instance", i, NoNic, 0, done))
             /\ IF done
                THEN Finish(c, loc[c], "return", "none", NoId, NoIp, is_running(inst[i]))
                ELSE Finish(c, loc[c], "raise", "ApiException", NoId, NoIp, FALSE)
    /\ UNCHANGED <<nvars, pvars, svars>>

\* _wait_instance_running(instance_id), line 183-189
Wait(c, i) ==
    /\ Begin(c, [LocIdle EXCEPT !.op = "wait", !.ctx = "stop", !.wait_id = i], "p_poll")
    /\ UNCHANGED <<nvars, pvars, svars>>

\* faulty variant: the loop is entered once more when the time is up
poll_continues_late(elapsed) == elapsed <= VmCreateTimeout

\* line 190: while(time.time() - start < self.vm_create_timeout)
poll_continues(elapsed) == elapsed < VmCreateTimeout

\* faulty variant: the loop has no time limit and leaves on 'running' only; its turns
\* that see another status change nothing and are left out
WaitPoll_no_timeout(c) ==
    /\ pc[c] = "p_poll"
    /\ Alive(loc[c].wait_id) /\ inst[loc[c].wait_id].status = "running"
    /\ Log(c, Call("get_instance", loc[c].wait_id, NoNic, 0, TRUE))
    /\ Finish(c, loc[c], "return", "none", NoId, NoIp, TRUE)
    /\ UNCHANGED <<nvars, pvars, svars>>

\* line 190-196: one turn of the polling loop (sleep(1) advances the clock by one),
\* or, the time being up, the call of self.stop()
WaitPoll(c) ==
    /\ pc[c] = "p_poll"
    /\ IF poll_continues(loc[c].elapsed)
       THEN \E ok \in BOOLEAN :
              LET i == loc[c].wait_id
                  done == ok /\ Alive(i)
              IN  /\ Log(c, Call("get_instance", i, NoNic, 0, done))
                  /\ IF ~done
                     THEN Finish(c, loc[c], "raise", "ApiException", NoId, NoIp, FALSE)
                     ELSE IF inst[i].status = "running"
                     THEN Finish(c, loc[c], "return", "none", NoId, NoIp, TRUE)
                     ELSE Goto(c, [loc[c] EXCEPT !.elapsed = @ + 1], "p_poll")
       ELSE /\ Goto(c, loc[c], stop_entry(c))
            /\ UNCHANGED calls
    /\ UNCHANGED <<nvars, pvars, svars>>

\* control is back at the caller; the locals of the operation are gone
Return(c) ==
    /\ pc[c] = "done"
    /\ pc' = [pc EXCEPT ![c] = "idle"]
    /\ loc' = [loc EXCEPT ![c] = LocIdle]
    /\ calls' = [calls EXCEPT ![c] = <<>>]
    /\ result' = [result EXCEPT ![c] = ResultIdle]
    /\ UNCHANGED <<nvars, pvars, svars>>

\* line 69-70
SetInstanceId(c, i) ==
    /\ pc[c] = "idle" /\ instance_id[c] # i
    /\ instance_id' = [instance_id EXCEPT ![c] = i]
    /\ UNCHANGED <<nvars, pvars, cvars, ip_address, config, public_vsi, ssh_client,
                   floating_ip_name>>

\* line 72-73
SetIpAddress(c, a) ==
    /\ pc[c] = "idle" /\ ip_address[c] # a
    /\ ip_address' = [ip_address EXCEPT ![c] = a]
    /\ UNCHANGED <<nvars, pvars, cvars, instance_id, config, public_vsi, ssh_client,
                   floating_ip_name>>

\* the provider finishes booting an instance: the status get_instance reports (line 192)
ProviderBoot(i) ==
    /\ Alive(i) /\ inst[i].status = "pending"
    /\ inst' = [inst EXCEPT ![i].status = "running"]
    /\ UNCHANGED <<nvars, fips, svars, cvars>>

Next ==
    \/ \E c \in DOMAIN pc, j \in JobKeys, k \in CallIds, check \in BOOLEAN :
          Create(c, j, k, check)
    \/ \E c \in DOMAIN pc : CreateList(c)
    \/ \E c \in DOMAIN pc : CreateInstance(c)
    \/ \E c \in DOMAIN pc : CreatePublic(c)
    \/ \E c \in DOMAIN pc : FipList(c)
    \/ \E c \in DOMAIN pc : FipCreate(c)
    \/ \E c \in DOMAIN pc : FipAttach(c)
    \/ \E c \in DOMAIN pc : DeleteList(c)
    \/ \E c \in DOMAIN pc : DeleteFip(c)
    \/ \E c \in DOMAIN pc : DeleteInst(c)
    \/ \E c \in DOMAIN pc : Stop(c)
    \/ \E c \in DOMAIN pc : StopAction(c)
    \/ \E c \in DOMAIN pc : Start(c)
    \/ \E c \in DOMAIN pc : StartAction(c)
    \/ \E c \in DOMAIN pc : IsReady(c)
    \/ \E c \in DOMAIN pc : IsReadyGet(c)
    \/ \E c \in DOMAIN pc, i \in 1..Len(inst) : Wait(c, i)
    \/ \E c \in DOMAIN pc : WaitPoll(c)
    \/ \E c \in DOMAIN pc : Return(c)
    \/ \E c \in DOMAIN pc : SetInstanceId(c, NoId)
    \/ \E c \in DOMAIN pc : SetIpAddress(c, NoIp)
    \/ \E i \in 1..Len(inst) : ProviderBoot(i)

Spec == Init /\ [][Next]_vars

(***************************************************************************)
(* SpecLive: Spec with the scheduling of a running program.  A controller  *)
(* inside an operation goes on to its next statement, and a remote call    *)
(* returns or raises: each such step is taken when it stays possible.      *)
(* Nothing is required of the caller (a new operation, a setter) nor of    *)
(* the provider (ProviderBoot).  The provider account starts empty; the    *)
(* instances a later create can discover are those earlier creates made.   *)
(***************************************************************************)
InitLive == Init /\ inst = <<>>

Step(c) ==
    \/ CreateList(c) \/ CreateInstance(c) \/ CreatePublic(c)
    \/ FipList(c) \/ FipCreate(c) \/ FipAttach(c)
    \/ DeleteList(c) \/ DeleteFip(c) \/ DeleteInst(c)
    \/ StopAction(c) \/ StartAction(c) \/ IsReadyGet(c) \/ WaitPoll(c)

SpecLive == InitLive /\ [][Next]_vars /\ \A c \in Ctrls : WF_vars(Step(c))

(***************************************************************************)
(* SpecConc: two controllers, one per job, create instances side by side.  *)
(***************************************************************************)
ConcCtrls == {"c1", "c2"}

ConcJobKeys == {<<"a">>, <<"a", ".">>}

ConcCallIds == {<<"1">>, <<"2">>}

InitConc ==
    /\ gen = GenIdle
    /\ inst = <<>>
    /\ fips = <<>>
    /\ public_vsi = [c \in ConcCtrls |-> FALSE]
    /\ config = [c \in ConcCtrls |-> [instance_id |-> NoId, ip_address |-> NoIp,
                                      delete_on_dismantle |-> FALSE, complete |-> TRUE]]
    /\ instance_id = [c \in ConcCtrls |-> config[c].instance_id]
    /\ ip_address = [c \in ConcCtrls |-> config[c].ip_address]
    /\ ssh_client = [c \in ConcCtrls |-> "unset"]
    /\ floating_ip_name = [c \in ConcCtrls |-> Unset]
    /\ pc = [c \in ConcCtrls |-> "idle"]
    /\ loc = [c \in ConcCtrls |-> LocIdle]
    /\ calls = [c \in ConcCtrls |-> <<>>]
    /\ result = [c \in ConcCtrls |-> ResultIdle]

NextConc ==
    \/ \E c \in DOMAIN pc, j \in ConcJobKeys, k \in ConcCallIds : Create(c, j, k, TRUE)
    \/ \E c \in DOMAIN pc : CreateList(c)
    \/ \E c \in DOMAIN pc : CreateInstance(c)
    \/ \E c \in DOMAIN pc : CreatePublic(c)
    \/ \E c \in DOMAIN pc : Return(c)

SpecConc == InitConc /\ [][NextConc]_vars

(***************************************************************************)
(* SpecLost: create() against a provider whose answer to create_instance   *)
(* can be lost: the request takes effect and the call raises all the same. *)
(***************************************************************************)
\* line 135: one attempt of create_instance inside the wrapper; the provider makes the
\* instance and func() raises (a timeout, a dropped connection)
CreateInstanceLost(c) ==
    /\ pc[c] = "c_inst"
    /\ config[c].complete
    /\ Len(inst) < InstanceQuota
    /\ LET new == Len(inst) + 1
           w == execution_wrapper(loc[c].retry_attempt, FALSE)
           l == Wrapped(loc[c], w, new)
       IN  /\ w.k # "falloff"
           /\ Log(c, Call("create_instance", new, NoNic, 0, FALSE))
           /\ inst' = Append(inst, [name |-> loc[c].new_name, status |-> "pending",
                                    nics |-> <<"eth0">>,
                                    req |-> <<loc[c].job_key, loc[c].call_id>>])
           /\ instance_id' = [instance_id EXCEPT ![c] = written_instance_id(@, w, new)]
           /\ config' = [config EXCEPT ![c].instance_id = written_instance_id(@, w, new)]
           /\ IF w.k = "retry" THEN Goto(c, l, "c_inst")
              ELSE Finish(c, l, "raise", "ApiException", NoId, NoIp, FALSE)
    /\ UNCHANGED <<nvars, fips, ip_address, public_vsi, ssh_client, floating_ip_name>>

\* the controller that creates; the account of InitConc has room for the instances of
\* two controllers, and the other one stays idle
LostCtrls == {"c1"}

NextLost ==
    \/ \E c \in LostCtrls, j \in JobKeys, k \in CallIds, check \in BOOLEAN :
          Create(c, j, k, check)
    \/ \E c \in LostCtrls : CreateList(c)
    \/ \E c \in LostCtrls : CreateInstance(c)
    \/ \E c \in LostCtrls : CreateInstanceLost(c)
    \/ \E c \in LostCtrls : CreatePublic(c)
    \/ \E c \in LostCtrls : Return(c)

SpecLost == InitConc /\ [][NextLost]_vars

(***************************************************************************)
(* SpecCfg: create() on controllers whose configuration lacks one of the   *)
(* identifiers _create_instance and the floating ip prototype read.        *)
(***************************************************************************)
\* a floating ip of the account that exists before the controller is built
ForeignFips ==
    [name : {FipName}, target : {NoNic}, alive : {TRUE}, bound : {{}}, again : {FALSE}]

InitCfg ==
    /\ gen = GenIdle
    /\ inst \in {<<>>} \cup {<<x>> : x \in ForeignInstances}
    /\ fips \in {<<>>} \cup {<<f>> : f \in ForeignFips}
    /\ public_vsi \in [Ctrls -> BOOLEAN]
    /\ config \in [Ctrls -> [instance_id : {NoId}, ip_address : {NoIp, ExtIp},
                             delete_on_dismantle : {FALSE}, complete : {FALSE}]]
    /\ instance_id = [c \in Ctrls |-> config[c].instance_id]
    /\ ip_address = [c \in Ctrls |-> config[c].ip_address]
    /\ ssh_client = [c \in Ctrls |-> IF public_vsi[c] /\ ip_address[c] # NoIp
                                     THEN "set" ELSE "unset"]
    /\ floating_ip_name \in [Ctrls -> {Unset, FipName}]
    /\ pc = [c \in Ctrls |-> "idle"]
    /\ loc = [c \in Ctrls |-> LocIdle]
    /\ calls = [c \in Ctrls |-> <<>>]
    /\ result = [c \in Ctrls |-> ResultIdle]

NextCfg ==
    \/ \E c \in DOMAIN pc, j \in JobKeys, k \in CallIds, check \in BOOLEAN :
          Create(c, j, k, check)
    \/ \E c \in DOMAIN pc : CreateList(c)
    \/ \E c \in DOMAIN pc : CreateInstance(c)
    \/ \E c \in DOMAIN pc : CreatePublic(c)
    \/ \E c \in DOMAIN pc : FipList(c)
    \/ \E c \in DOMAIN pc : FipCreate(c)
    \/ \E c \in DOMAIN pc : FipAttach(c)
    \/ \E c \in DOMAIN pc : DeleteList(c)
    \/ \E c \in DOMAIN pc : DeleteFip(c)
    \/ \E c \in DOMAIN pc : DeleteInst(c)
    \/ \E c \in DOMAIN pc : Return(c)

SpecCfg == InitCfg /\ [][NextCfg]_vars

(***************************************************************************)
(* Properties.                                                             *)
(***************************************************************************)
HasCall(c, op) == \E n \in 1..Len(calls[c]) : calls[c][n].op = op

Done(c, op) == pc[c] = "done" /\ result[c].op = op

\* the invocations execution_wrapper made of its operation, in order
Invocations(c) ==
    SelectSeq(calls[c], LAMBDA x : x.op \in {"create_instance", "action_start", "action_stop"})

\* C1: execution_wrapper invokes its operation at most 15 times and never again after a
\* success; it returns the result of the successful invocation, in particular when the
\* first 14 invocations fail and the 15th succeeds; when all 15 invocations fail it has
\* invoked the operation exactly 15 times and the exception reaches the caller.
C1_BoundedRetry ==
    \A c \in DOMAIN pc :
      LET w == Invocations(c)
          n == Len(w)
      IN  /\ n <= 15
          /\ \A i \in 1..(n - 1) : ~w[i].ok
          /\ (n >= 1 /\ w[n].ok) => (loc[c].wrap = "return" /\ loc[c].response = w[n].id)
          /\ (n = 15 /\ ~w[n].ok) =>
                (loc[c].wrap = "raise" /\ pc[c] = "done" /\ result[c].outcome = "raise"
                 /\ result[c].err = "ApiException")
          /\ loc[c].wrap = "return" => (n >= 1 /\ w[n].ok)
          /\ loc[c].wrap = "raise" => n = 15
          /\ loc[c].wrap \in {"none", "return", "raise"}

C1_Witness ==
    \E c \in DOMAIN pc :
      /\ Len(Invocations(c)) = 15
      /\ \A i \in 1..14 : ~Invocations(c)[i].ok
      /\ Invocations(c)[15].ok
      /\ loc[c].wrap = "return"

\* C2: create(job_key, call_id, check_if_vsi_exists=True) against a provider that lists
\* an instance named as (job_key, call_id) derives issues no create_instance call, leaves
\* a matching instance in existence, and what it returns is the id of a matching
\* instance, under every configuration of the controller.
C2_NoDuplicateProvisioning ==
    \A c \in DOMAIN pc :
      (Done(c, "create") /\ loc[c].check /\ result[c].pre_match # {}) =>
         /\ ~HasCall(c, "create_instance")
         /\ \E i \in result[c].pre_match : Alive(i)
         /\ result[c].outcome = "return" => result[c].ret_id \in result[c].pre_match

\* position of the first call of op in the log, 0 when there is none
FirstCall(c, op) ==
    IF HasCall(c, op)
    THEN CHOOSE n \in 1..Len(calls[c]) :
           calls[c][n].op = op /\ \A m \in 1..(n - 1) : calls[c][m].op # op
    ELSE 0

\* C3: with delete_on_dismantle, stop() deletes every floating ip bound to an interface
\* of the instance and then the instance, every delete_floating_ip before the
\* delete_instance, and issues no stop action; without it, stop() issues a stop action
\* and no delete_floating_ip and no delete_instance.
C3_DismantlePolicy ==
    \A c \in DOMAIN pc :
      (Done(c, "stop") /\ result[c].outcome = "return") =>
         IF config[c].delete_on_dismantle
         THEN /\ ~HasCall(c, "action_stop")
              /\ \A n \in 1..Len(calls[c]) :
                    calls[c][n].op = "delete_floating_ip" =>
                       (FirstCall(c, "delete_instance") = 0
                        \/ n < FirstCall(c, "delete_instance"))
              /\ result[c].pre_id \in 1..Len(inst) =>
                    /\ \A f \in result[c].pre_fips : ~FipAlive(f)
                    /\ ~Alive(result[c].pre_id)
         ELSE /\ HasCall(c, "action_stop")
              /\ ~HasCall(c, "delete_floating_ip")
              /\ ~HasCall(c, "delete_instance")

\* C4: when the polls of _wait_instance_running see no 'running' status until the
\* timeout is up, it performs one teardown and then fails with the provisioning-failed
\* error.
C4_TimeoutRollback ==
    \A c \in DOMAIN pc :
      (Done(c, "wait") /\ loc[c].elapsed >= VmCreateTimeout) =>
         /\ result[c].outcome = "raise"
         /\ result[c].err = "VMCreateFailed"
         /\ HasCall(c, "action_stop") \/ HasCall(c, "list_instance_network_interfaces")

\* C5: when create() with public exposure and no known ip_address returns, the instance
\* is running, exactly one floating ip is bound to it and the returned pair is the
\* instance id and that floating ip's address.
C5_CreatePublicReady ==
    \A c \in DOMAIN pc :
      (Done(c, "create") /\ result[c].outcome = "return" /\ public_vsi[c]
       /\ result[c].pre_ip = NoIp) =>
         /\ Alive(result[c].ret_id)
         /\ inst[result[c].ret_id].status = "running"
         /\ Cardinality(AttachedFips(result[c].ret_id)) = 1
         /\ \A f \in AttachedFips(result[c].ret_id) : result[c].ret_ip = FipAddress(f)

\* C6: when the floating ip found by name is already bound to the primary interface of
\* the instance, the reconciler returns its address without an attach call; and no
\* floating ip is ever attached twice to the same network interface.
C6_FloatingIpIdempotence ==
    /\ \A c \in DOMAIN pc :
         (loc[c].op = "create" /\ loc[c].floating_ip.id # 0
          /\ loc[c].floating_ip.target = PrimaryNic(loc[c].instance)) =>
            /\ ~HasCall(c, "add_floating_ip")
            /\ (pc[c] = "done" /\ result[c].outcome = "return") =>
                   result[c].ret_ip = FipAddress(loc[c].floating_ip.id)
    /\ \A f \in 1..Len(fips) : ~fips[f].again

\* C7: when stop() with delete_on_dismantle returns normally, every floating ip that was
\* bound to the instance and the instance itself are deleted; a failed delete call is
\* not swallowed.
C7_NoLeakOnTeardown ==
    \A c \in DOMAIN pc :
      (Done(c, "stop") /\ config[c].delete_on_dismantle /\ result[c].outcome = "return"
       /\ result[c].pre_id \in 1..Len(inst)) =>
         /\ \A f \in result[c].pre_fips : ~FipAlive(f)
         /\ ~Alive(result[c].pre_id)
         /\ \A n \in 1..Len(calls[c]) : calls[c][n].ok

\* a job_key or call_id the sanitising of _generate_name leaves as it is
PlainChars == {"a", "b", "1", "2"}

Plain(str) == str # <<>> /\ \A n \in 1..Len(str) : str[n] \in PlainChars

PlainPair(p) == p # <<>> /\ Plain(p[1]) /\ Plain(p[2])

Request(c) == <<loc[c].job_key, loc[c].call_id>>

\* C8 (as stated): two different (job_key, call_id) pairs never derive the same instance
\* name, so a create(check_if_vsi_exists=True) never adopts the instance created for
\* another pair and no two instances created for different pairs carry the same name.
C8_DistinctIdentities ==
    /\ \A c \in DOMAIN pc :
         (loc[c].op = "create" /\ loc[c].adopted # NoId) =>
            inst[loc[c].adopted].req = Request(c)
    /\ \A i, j \in 1..Len(inst) :
         (inst[i].req # inst[j].req) => inst[i].name # inst[j].name

\* C8 (amended): two different (job_key, call_id) pairs whose components hold only
\* lower-case letters and digits derive different instance names; a create for such a
\* pair never adopts the instance created for another such pair, and no two instances
\* created for different such pairs carry the same name.
C8_DistinctPlainIdentities ==
    /\ \A c \in DOMAIN pc :
         (loc[c].op = "create" /\ loc[c].adopted # NoId /\ PlainPair(Request(c))
          /\ PlainPair(inst[loc[c].adopted].req)) =>
            inst[loc[c].adopted].req = Request(c)
    /\ \A i, j \in 1..Len(inst) :
         (PlainPair(inst[i].req) /\ PlainPair(inst[j].req) /\ inst[i].req # inst[j].req)
            => inst[i].name # inst[j].name

\* a create for a plain pair has listed the instance of another plain pair and passed it
C8_Witness ==
    \E c \in DOMAIN pc :
      /\ pc[c] = "c_inst" /\ loc[c].check /\ PlainPair(Request(c))
      /\ HasCall(c, "list_instances")
      /\ \E i \in AllInstances : PlainPair(inst[i].req) /\ inst[i].req # Request(c)

\* positions of the failed calls in the log of the operation c runs
FailedCalls(c) == {n \in 1..Len(calls[c]) : ~calls[c][n].ok}

\* C11: every remote call is issued through execution_wrapper, so when exactly one
\* remote call of an operation failed, that call was made again right afterwards.
C11_EveryCallRetried ==
    \A c \in DOMAIN pc :
      (pc[c] = "done" /\ Cardinality(FailedCalls(c)) = 1) =>
         \A n \in FailedCalls(c) :
            n < Len(calls[c]) /\ calls[c][n + 1].op = calls[c][n].op

\* the instance the handle of c names is running
HandleRunning(c) == Alive(instance_id[c]) /\ inst[instance_id[c]].status = "running"

\* C12 (as stated): once the instance is running and ip_address is set, no step of any
\* operation, the setters included, clears ip_address unless it deletes the instance.
C12_IpNeverCleared ==
    [][\A c \in DOMAIN pc :
         (HandleRunning(c) /\ ip_address[c] # NoIp
          /\ inst'[instance_id[c]].status # "deleted") => ip_address'[c] # NoIp]_vars

\* C12 (amended): the only step that clears a set ip_address is a call of
\* set_ip_address with an empty value; create, start, stop, is_ready,
\* _wait_instance_running and set_instance_id never clear it, whatever the status of
\* the instance.
C12_IpClearedBySetterOnly ==
    [][\A c \in DOMAIN pc :
         (ip_address[c] # NoIp /\ ip_address'[c] = NoIp) => SetIpAddress(c, NoIp)]_vars

\* stop() has stopped a running instance and the address is still the one it found
C12_Witness ==
    \E c \in DOMAIN pc :
      /\ Done(c, "stop") /\ result[c].outcome = "return"
      /\ result[c].pre_ip # NoIp /\ ip_address[c] = result[c].pre_ip
      /\ Alive(instance_id[c]) /\ inst[instance_id[c]].status = "stopped"

\* C13: create() called on a handle that already carries an instance_id issues no
\* create_instance call and returns that instance_id: it returns whenever none of its
\* remote calls fails, and what it returns is the id the handle carried.
C13_PreSuppliedShortCircuit ==
    \A c \in DOMAIN pc :
      (Done(c, "create") /\ result[c].pre_id # NoId) =>
         /\ ~HasCall(c, "create_instance")
         /\ result[c].outcome = "return" => result[c].ret_id = result[c].pre_id
         /\ FailedCalls(c) = {} => result[c].outcome = "return"

\* positions of the failed create_instance calls in the log of the operation c runs
FailedCreates(c) == {n \in FailedCalls(c) : calls[c][n].op = "create_instance"}

\* C14: while create_instance has not returned a result, and when it has failed on all
\* 15 attempts, the handle's instance_id and config['instance_id'] are what they were
\* before create() was called; after the 15th failure create() raises.
C14_NoPartialState ==
    \A c \in DOMAIN pc :
      /\ pc[c] = "c_inst" =>
            (instance_id[c] = result[c].pre_id /\ config[c].instance_id = result[c].pre_cfg)
      /\ (Done(c, "create") /\ Cardinality(FailedCreates(c)) = 15) =>
            /\ result[c].outcome = "raise"
            /\ instance_id[c] = result[c].pre_id
            /\ config[c].instance_id = result[c].pre_cfg

\* create_instance failed 15 times and create has raised
C14_Witness ==
    \E c \in DOMAIN pc :
      /\ Done(c, "create") /\ Cardinality(FailedCreates(c)) = 15
      /\ result[c].outcome = "raise" /\ result[c].err = "ApiException"
      /\ instance_id[c] = NoId

\* C15: with a required identifier missing from the configuration, create() fails, and
\* it fails before it has made any remote call, whatever check_if_vsi_exists and
\* public_vsi are.
C15_ConfigErrorsFailFast ==
    \A c \in DOMAIN pc :
      (Done(c, "create") /\ ~config[c].complete) =>
         (result[c].outcome = "raise" /\ calls[c] = <<>>)

\* C16: when the last provider call stop() made for an existing instance has failed
\* (a call of the delete path, or the 15th attempt of the 'stop' action), stop() raises
\* that provider error to its caller.
C16_StopSurfacesErrors ==
    \A c \in DOMAIN pc :
      (Done(c, "stop") /\ Alive(result[c].pre_id)
       /\ calls[c] # <<>> /\ ~calls[c][Len(calls[c])].ok) =>
         (result[c].outcome = "raise" /\ result[c].err = "ApiException")

\* the remote calls of _create_and_attach_floating_ip and those of _delete_instance
FipOps == {"list_floating_ips", "create_floating_ip", "add_floating_ip"}

CleanupOps == {"list_instance_network_interfaces", "delete_floating_ip", "delete_instance"}

\* C17: when a floating ip call (listing, allocation, attachment) failed during
\* create(), create() raises the provider error of that call: not an error of another
\* kind, and not the error of a cleanup call that failed afterwards.
C17_OriginalErrorReachesCaller ==
    \A c \in DOMAIN pc :
      (Done(c, "create") /\ \E n \in FailedCalls(c) : calls[c][n].op \in FipOps) =>
         /\ result[c].outcome = "raise"
         /\ result[c].err = "ApiException"
         /\ ~(calls[c][Len(calls[c])].op \in CleanupOps /\ ~calls[c][Len(calls[c])].ok)

\* C18: the existence check narrows the race and does not close it: a
\* create(check_if_vsi_exists=True) goes on to create_instance only if its own listing
\* showed no instance of the derived name, and nothing else keeps two controllers
\* apart, so two instances of one identity come to exist (C18_Witness).
C18_CheckThenCreate ==
    \A c \in DOMAIN pc :
      (loc[c].op = "create" /\ loc[c].check
       /\ (pc[c] = "c_inst" \/ HasCall(c, "create_instance"))) =>
         /\ HasCall(c, "list_instances")
         /\ \A i \in loc[c].listed : inst[i].name # loc[c].new_name

\* both controllers listed before either created, both issued create_instance, and the
\* provider holds two instances of the same identity and name
C18_Witness ==
    \E c1, c2 \in DOMAIN pc :
      /\ c1 # c2
      /\ \A c \in {c1, c2} :
           /\ Done(c, "create") /\ loc[c].check /\ loc[c].listed = {}
           /\ HasCall(c, "list_instances") /\ HasCall(c, "create_instance")
           /\ Alive(instance_id[c])
      /\ Request(c1) = Request(c2)
      /\ instance_id[c1] # instance_id[c2]
      /\ inst[instance_id[c1]].name = inst[instance_id[c2]].name

\* the listing of the floating ips has succeeded and an expected name exists
FipListed(c) ==
    /\ loc[c].op = "create" /\ floating_ip_name[c] # Unset
    /\ \E n \in 1..Len(calls[c]) : calls[c][n].op = "list_floating_ips" /\ calls[c][n].ok

CreateFipCalls(c) == {n \in 1..Len(calls[c]) : calls[c][n].op = "create_floating_ip"}

C20_AttachToPrimary ==
    \A c \in DOMAIN pc :
      \A n \in 1..Len(calls[c]) :
         (calls[c][n].op = "add_floating_ip" /\ calls[c][n].id \in 1..Len(inst)) =>
            calls[c][n].nic = PrimaryNic(calls[c][n].id)

\* positions of the calls of op in the log of the operation c runs
CallsOf(c, op) == {n \in 1..Len(calls[c]) : calls[c][n].op = op}

\* C21: within one run of the reconciler each of list_floating_ips,
\* create_floating_ip and the attach call is made at most once; when one of them fails,
\* the provider error of that call is what the reconciler raises, and no reconciler
\* call follows it.
C21_NoRetryInReconciler ==
    \A c \in DOMAIN pc :
      loc[c].op = "create" =>
         /\ \A op \in FipOps : Cardinality(CallsOf(c, op)) <= 1
         /\ \A n \in FailedCalls(c) :
              calls[c][n].op \in FipOps =>
                 /\ loc[c].exc = "ApiException"
                 /\ \A m \in (n + 1)..Len(calls[c]) : calls[c][m].op \notin FipOps

\* C22: a create() on a controller without public exposure, or called with an
\* ip_address already on the handle, issues no list_floating_ips, create_floating_ip
\* or attach call and leaves ip_address as it was.
C22_ReconcilerOnlyWhenNeeded ==
    \A c \in DOMAIN pc :
      (loc[c].op = "create" /\ (~public_vsi[c] \/ result[c].pre_ip # NoIp)) =>
         /\ \A op \in FipOps : CallsOf(c, op) = {}
         /\ ip_address[c] = result[c].pre_ip

\* a create() with public exposure and a known address has returned that address
C22_Witness ==
    \E c \in DOMAIN pc :
      /\ Done(c, "create") /\ result[c].outcome = "return"
      /\ public_vsi[c] /\ result[c].pre_ip # NoIp
      /\ result[c].ret_ip = result[c].pre_ip
      /\ HasCall(c, "create_instance")

TeardownOps == CleanupOps \cup {"action_stop"}

\* what _wait_instance_running has done when it is over or tearing down
WaitExits(c) ==
    /\ (Done(c, "wait") /\ result[c].outcome = "return") =>
          /\ loc[c].elapsed < VmCreateTimeout
          /\ Len(calls[c]) = loc[c].elapsed + 1
          /\ \A n \in 1..Len(calls[c]) : calls[c][n].op = "get_instance" /\ calls[c][n].ok
          /\ inst[loc[c].wait_id].status = "running"
    /\ (loc[c].op = "wait"
        /\ (\/ \E op \in TeardownOps : HasCall(c, op)
            \/ result[c].err = "VMCreateFailed"
            \/ pc[c] \in {"d_list", "d_fip", "d_inst", "s_stop"})) =>
          /\ loc[c].elapsed >= VmCreateTimeout
          /\ Cardinality(CallsOf(c, "get_instance")) = loc[c].elapsed
          /\ \A n \in CallsOf(c, "get_instance") : calls[c][n].ok
    /\ (Done(c, "wait") /\ result[c].outcome = "raise" /\ loc[c].elapsed < VmCreateTimeout) =>
          /\ result[c].err = "ApiException"
          /\ ~calls[c][Len(calls[c])].ok /\ calls[c][Len(calls[c])].op = "get_instance"

\* a poll made before the time is up has answered with status 'running'
PollSeesRunning(c) ==
    /\ pc[c] = "p_poll" /\ loc[c].elapsed < VmCreateTimeout
    /\ Len(calls'[c]) = Len(calls[c]) + 1
    /\ calls'[c][Len(calls'[c])].ok
    /\ inst[loc[c].wait_id].status = "running"

\* C23: _wait_instance_running returns at the first poll that answers 'running' before
\* the time is up, with no further get_instance and no teardown; the teardown and the
\* provisioning-failed error come only when the time is up and every poll answered
\* with another status; the only other way out is the error of a failed get_instance.
C23_PollExit ==
    /\ [](\A c \in DOMAIN pc : WaitExits(c))
    /\ [][\A c \in DOMAIN pc :
            PollSeesRunning(c) => (pc'[c] = "done" /\ result'[c].outcome = "return")]_vars

\* the wait has returned on a poll that saw 'running'
C23_Witness ==
    \E c \in DOMAIN pc :
      /\ Done(c, "wait") /\ result[c].outcome = "return" /\ result[c].ret_bool
      /\ inst[loc[c].wait_id].status = "running"

Busy(c) == pc[c] \notin {"idle", "done"}

\* C24: no operation blocks for ever when every remote call returns or raises: a
\* controller inside create, start, stop, is_ready or _wait_instance_running reaches the
\* end of the operation; a wrapped call is invoked at most 15 times, and the polling
\* loop never runs past vm_create_timeout.
C24_NoIndefiniteBlocking ==
    /\ [](\A c \in DOMAIN pc :
            /\ Len(Invocations(c)) <= RetryLoopBound
            /\ loc[c].elapsed <= VmCreateTimeout
            /\ Cardinality(CallsOf(c, "get_instance")) <= VmCreateTimeout + 1)
    /\ \A c \in Ctrls : Busy(c) ~> (pc[c] = "done")

\* the polling loop has run out of time and the operation has come to its end
C24_Witness ==
    \E c \in DOMAIN pc :
      /\ Done(c, "wait") /\ loc[c].elapsed = VmCreateTimeout
      /\ HasCall(c, "action_stop")
      /\ Len(Invocations(c)) = RetryLoopBound

\* C25: after a create that returned (instance_id, ip_address), for an instance it made
\* or one it discovered, config['instance_id'] and config['ip_address'] are the values
\* returned.
C25_ConfigWriteBack ==
    \A c \in DOMAIN pc :
      (Done(c, "create") /\ result[c].outcome = "return"
       /\ (loc[c].adopted # NoId \/ \E n \in CallsOf(c, "create_instance") : calls[c][n].ok)) =>
         /\ config[c].instance_id = result[c].ret_id
         /\ config[c].ip_address = result[c].ret_ip

\* the step of is_ready from its entry to its end
IsReadyStep(c) == pc[c] = "r_get" /\ pc'[c] # "r_get"

\* C26: is_ready makes exactly one get_instance call, on the instance of the handle;
\* it returns True if and only if the status in the response is 'running'; it changes
\* neither instance_id nor ip_address nor any instance or floating ip of the provider.
C26_IsReadyPure ==
    /\ [](\A c \in DOMAIN pc :
            Done(c, "is_ready") =>
               /\ Len(calls[c]) = 1 /\ calls[c][1].op = "get_instance"
               /\ calls[c][1].id = instance_id[c]
               /\ instance_id[c] = result[c].pre_id /\ ip_address[c] = result[c].pre_ip
               /\ result[c].outcome = "return" <=> calls[c][1].ok)
    /\ [][\A c \in DOMAIN pc :
            IsReadyStep(c) =>
               /\ pc'[c] = "done"
               /\ Len(calls[c]) = 0 /\ Len(calls'[c]) = 1
               /\ result'[c].outcome = "return" =>
                     (result'[c].ret_bool <=> inst[instance_id[c]].status = "running")
               /\ UNCHANGED <<inst, fips, instance_id, ip_address, config>>]_vars

\* is_ready has answered False for an instance that is not yet running
C26_Witness ==
    \E c \in DOMAIN pc :
      /\ Done(c, "is_ready") /\ result[c].outcome = "return" /\ ~result[c].ret_bool
      /\ inst[instance_id[c]].status = "pending"

\* the instances a create made in its own call
MadeBy(c) == {calls[c][n].id : n \in {m \in CallsOf(c, "create_instance") : calls[c][m].ok}}

\* C27: create never deletes an instance it did not make in that call: against an
\* instance that was on the handle at entry or that the listing discovered, it issues
\* no delete_instance call, and no delete_floating_ip call for a floating ip of it
\* (_delete_instance deletes the floating ips of the handle's instance), whatever the
\* public setting and the outcome of the floating ip steps.
C27_NeverDeletesForeign ==
    \A c \in DOMAIN pc :
      loc[c].op = "create" =>
         /\ \A n \in CallsOf(c, "delete_instance") : calls[c][n].id \in MadeBy(c)
         /\ CallsOf(c, "delete_floating_ip") # {} => instance_id[c] \in MadeBy(c)

\* the create_instance requests of a create that took effect at the provider
TookEffect(c) == {n \in CallsOf(c, "create_instance") : calls[c][n].id # NoId}

\* C28: one create makes at most one instance at the provider, also when a
\* create_instance request takes effect and its response is lost: at most one instance
\* with the derived name is new at the provider when the create is over.
C28_AtMostOneInstancePerCreate ==
    \A c \in DOMAIN pc :
      loc[c].op = "create" =>
         /\ Cardinality(TookEffect(c)) <= 1
         /\ Cardinality({calls[c][n].id : n \in TookEffect(c)}) <= 1

\* C29: the instance id a create returns is that of an instance that exists at the
\* provider when the create returns, after any sequence of operations of the controller
\* (only the controller deletes instances).
C29_ReturnedInstanceExists ==
    \A c \in DOMAIN pc :
      (Done(c, "create") /\ result[c].outcome = "return") => Alive(result[c].ret_id)

\* C30: when create raises after a create_instance of that call succeeded, the instance
\* made in the call and every floating ip attached to it no longer exist at the
\* provider when the error reaches the caller.
C30_NoOrphanAfterFailedCreate ==
    \A c \in DOMAIN pc :
      (Done(c, "create") /\ result[c].outcome = "raise") =>
         \A i \in MadeBy(c) : ~Alive(i) /\ AttachedFips(i) = {}

LifecycleOps == {"start", "stop", "is_ready", "wait"}

\* a step changes what the handle of c carries, or its configuration map
HandleChanged(c) ==
    \/ instance_id'[c] # instance_id[c]
    \/ ip_address'[c] # ip_address[c]
    \/ config'[c] # config[c]

\* a step of a setter (line 69-73): the controller is idle before and after it
SetterStep(c) == pc[c] = "idle" /\ pc'[c] = "idle"

\* C31: start, stop under both policies, is_ready and _wait_instance_running leave
\* instance_id, ip_address and the configuration map as they found them, from entry to
\* end; only a step of create or a setter changes any of them.
C31_LifecycleFrame ==
    /\ [](\A c \in DOMAIN pc :
            loc[c].op \in LifecycleOps =>
               /\ instance_id[c] = result[c].pre_id
               /\ ip_address[c] = result[c].pre_ip
               /\ config[c].instance_id = result[c].pre_cfg)
    /\ [][\A c \in DOMAIN pc :
            /\ (loc[c].op \in LifecycleOps \/ loc'[c].op \in LifecycleOps) => ~HandleChanged(c)
            /\ HandleChanged(c) => (loc[c].op = "create" \/ SetterStep(c))]_vars

\* a stop that deleted the instance has ended with the handle and the configuration
\* still naming the instance
C31_Witness ==
    \E c \in DOMAIN pc :
      /\ Done(c, "stop") /\ result[c].pre_id # NoId
      /\ instance_id[c] = result[c].pre_id /\ config[c].instance_id = result[c].pre_id
      /\ \E n \in CallsOf(c, "delete_instance") : calls[c][n].ok

====
